---- MODULE Spec2Model ----
(***************************************************************************)
(* Model of the vscode-didact tutorial registry (src/src/utils.ts) and of  *)
(* the tutorial tree provider (src/src/nodeProvider.ts).                   *)
(*                                                                         *)
(* The registry is the workspace value of the configuration key            *)
(* 'didact.registered': absent, or a list of JSON strings.  A JSON string  *)
(* {"name":n,"category":c,"sourceUri":u} is modelled by the tuple          *)
(* <<n, c, u>>; JSONparse turns it into the object the code reads.         *)
(*                                                                         *)
(* Spec         the registry operations and the root list of the view.     *)
(* SpecHeadings one call of processHeadingsForTutorial on a document.      *)
(* SpecView     both, for statements about every list of the view.         *)
(* SpecExpand   a category and a tutorial expanded over a document, and    *)
(*              getParent asked for a node shown.                          *)
(* SpecProvider the registry operations with addChild and                  *)
(*              setRetrieveIntegrations called on the provider.            *)
(* SpecAsync    two registerTutorial calls interleaved at the await.       *)
(* SpecDispatch one run of the action dispatcher, after the specification. *)
(***************************************************************************)
EXTENDS Integers, Sequences, FiniteSets, TLC

VARIABLES
    registered,         \* workspace value of 'didact.registered'
    treeNodes,          \* DidactNodeProvider.treeNodes (the root list)
    retrieveTutorials,  \* DidactNodeProvider.retrieveTutorials
    last,               \* the registry operation completed last and its outcome
    hcall,              \* a call of processHeadingsForTutorial: input and result
    expand,             \* a document and the tutorial nodes expanded over it
    disp,               \* a run of the action dispatcher over one document
    calls               \* registerTutorial calls in progress, per caller

vars == <<registered, treeNodes, retrieveTutorials, last, hcall, expand, disp, calls>>

\* ------------------------------------------------------------- bounds
\* Most entries the registry is allowed to grow to in the model.
MaxReg == 2

\* Most elements in the list getTimeElementsForDidactFileUri hands over.
MaxHeadings == 2

\* Most actions in the sequence handed to the dispatcher.
MaxActions == 3

\* Most nodes the root list is allowed to grow to by addChild without refresh.
MaxNodes == 2

\* ------------------------------------------------------------- values
\* JavaScript undefined, where a string is expected.
Undefined == "<undefined>"

\* JavaScript undefined, where a string read by characters is expected (an
\* attribute value), where a description is expected, where a node is
\* expected and where a list of elements is expected.
UndefinedAttr == <<Undefined>>
UndefinedLabel == <<Undefined>>
NoNode == [kind |-> "undefined"]
NoElements == <<[kind |-> "undefined"]>>

\* The workspace value of 'didact.registered': none, or a list.
NoValue == [defined |-> FALSE]
ListValue(list) == [defined |-> TRUE, list |-> list]

\* Inputs of registerTutorial: names and categories in lower and mixed
\* case, and the empty string (falsy in the code's guards).
Names == {"foo", "Foo", ""}
Categories == {"cat", "Cat", ""}
Uris == {"u1.didact.md", "u2.didact.adoc", ""}

\* String.prototype.toLowerCase on the strings of the model.
toLowerCase(s) ==
    CASE s = "Foo" -> "foo"
      [] s = "Cat" -> "cat"
      [] OTHER -> s

\* JavaScript truthiness of a string or undefined value.
Truthy(s) == s # "" /\ s # Undefined

\* JSON.stringify of the object literal built by registerTutorial.
JSONstringify(obj) == <<obj.name, obj.category, obj.sourceUri>>

\* JSON.parse of a registry entry.
JSONparse(str) == [name |-> str[1], category |-> str[2], sourceUri |-> str[3]]

\* ------------------------------------------------------------- utils.ts
getRegisteredTutorials == registered

\* The object literal and its serialisation.
newDidactAsString(name, sourceUri, category) ==
    JSONstringify([name |-> name, category |-> category, sourceUri |-> sourceUri])

\* One pass of the duplicate loop: entry i against the raw arguments.
EntryMatches(entry, name, category) ==
    LET jsonObj == JSONparse(entry) IN
    /\ Truthy(jsonObj.name)
    /\ Truthy(jsonObj.category)
    /\ toLowerCase(jsonObj.name) = name
    /\ toLowerCase(jsonObj.category) = category

\* The duplicate loop of registerTutorial, from entry i on (break on match).
RECURSIVE MatchFrom(_, _, _, _)
MatchFrom(existingRegistry, i, name, category) ==
    IF i > Len(existingRegistry) THEN FALSE
    ELSE IF EntryMatches(existingRegistry[i], name, category) THEN TRUE
    ELSE MatchFrom(existingRegistry, i + 1, name, category)

\* Whether registerTutorial throws the "already exists" error.
RegisterThrows(existingRegistry, name, category) ==
    /\ existingRegistry.defined
    /\ MatchFrom(existingRegistry.list, 1, name, category)

\* Faulty variant of PushEntry: unshift instead of push.
PushEntryFront(existingRegistry, entry) == <<entry>> \o existingRegistry

\* existingRegistry.push(newDidactAsString)
PushEntry(existingRegistry, entry) == Append(existingRegistry, entry)

\* The list registerTutorial hands to configuration.update.
RegistryToWrite(existingRegistry, name, sourceUri, category) ==
    IF ~existingRegistry.defined
    THEN <<newDidactAsString(name, sourceUri, category)>>
    ELSE PushEntry(existingRegistry.list, newDidactAsString(name, sourceUri, category))

RECURSIVE CategoriesFrom(_, _)
CategoriesFrom(existingRegistry, i) ==
    IF i > Len(existingRegistry) THEN <<>>
    ELSE LET jsonObj == JSONparse(existingRegistry[i]) IN
         (IF Truthy(jsonObj.category) THEN <<jsonObj.category>> ELSE <<>>)
             \o CategoriesFrom(existingRegistry, i + 1)

RECURSIVE DistinctFrom(_, _, _)
DistinctFrom(q, i, acc) ==
    IF i > Len(q) THEN acc
    ELSE DistinctFrom(q, i + 1,
            IF \E k \in 1..Len(acc) : acc[k] = q[i] THEN acc ELSE Append(acc, q[i]))

\* Faulty variant of getDidactCategoriesOf: a category already collected is skipped.
getDidactCategoriesDistinct(existingRegistry) ==
    IF ~existingRegistry.defined THEN <<>>
    ELSE DistinctFrom(CategoriesFrom(existingRegistry.list, 1), 1, <<>>)

getDidactCategoriesOf(existingRegistry) ==
    IF ~existingRegistry.defined THEN <<>>
    ELSE CategoriesFrom(existingRegistry.list, 1)

getDidactCategories == getDidactCategoriesOf(getRegisteredTutorials)

\* Faulty variant of TutorialCategoryTest: the comparison ignores letter case.
TutorialCategoryTestIgnoringCase(jsonObj, category) ==
    toLowerCase(jsonObj.category) = toLowerCase(category)

\* The test of getTutorialsForCategory on one parsed entry.
TutorialCategoryTest(jsonObj, category) == jsonObj.category = category

RECURSIVE TutorialsFrom(_, _, _)
TutorialsFrom(existingRegistry, i, category) ==
    IF i > Len(existingRegistry) THEN <<>>
    ELSE LET jsonObj == JSONparse(existingRegistry[i]) IN
         (IF /\ Truthy(jsonObj.category)
             /\ Truthy(jsonObj.name)
             /\ TutorialCategoryTest(jsonObj, category)
          THEN <<jsonObj.name>> ELSE <<>>)
             \o TutorialsFrom(existingRegistry, i + 1, category)

getTutorialsForCategoryOf(existingRegistry, category) ==
    IF ~existingRegistry.defined THEN <<>>
    ELSE TutorialsFrom(existingRegistry.list, 1, category)

getTutorialsForCategory(category) ==
    getTutorialsForCategoryOf(getRegisteredTutorials, category)

RECURSIVE UriFrom(_, _, _, _)
UriFrom(existingRegistry, i, name, category) ==
    IF i > Len(existingRegistry) THEN Undefined
    ELSE LET jsonObj == JSONparse(existingRegistry[i]) IN
         IF /\ Truthy(jsonObj.category)
            /\ Truthy(jsonObj.name)
            /\ Truthy(jsonObj.sourceUri)
            /\ jsonObj.name = name
            /\ jsonObj.category = category
         THEN jsonObj.sourceUri
         ELSE UriFrom(existingRegistry, i + 1, name, category)

getUriForDidactNameAndCategoryOf(existingRegistry, name, category) ==
    IF ~existingRegistry.defined THEN Undefined
    ELSE UriFrom(existingRegistry.list, 1, name, category)

getUriForDidactNameAndCategory(name, category) ==
    getUriForDidactNameAndCategoryOf(getRegisteredTutorials, name, category)

\* Faulty variant of ClearedValue: the list read is written back.
ClearedValueUnchanged == registered

\* The value clearRegisteredTutorials writes under the key.
ClearedValue == NoValue

\* ------------------------------------------------------- nodeProvider.ts
Collapsed == "Collapsed"
None == "None"

TreeNode(type, label, uri, collapsibleState) ==
    [kind |-> "TreeNode", category |-> type, label |-> label, uri |-> uri,
     collapsibleState |-> collapsibleState, description |-> UndefinedLabel]

\* Faulty variant of doesNodeExist: nodes are compared by identity, and a node just
\* built is identical to none in the list.
doesNodeExistByIdentity(oldNodes, newNode) ==
    \E i \in 1..Len(oldNodes) : FALSE

doesNodeExist(oldNodes, newNode) ==
    \E i \in 1..Len(oldNodes) : oldNodes[i].label = newNode.label

\* addChild(newNode, true, oldNodes): push without refresh.
addChildNoRefresh(newNode, oldNodes) == Append(oldNodes, newNode)

\* One iteration of a provider loop: insert unless a sibling has the label.
AddUnlessExists(oldNodes, newNode) ==
    IF ~doesNodeExist(oldNodes, newNode)
    THEN addChildNoRefresh(newNode, oldNodes)
    ELSE oldNodes

RECURSIVE CategoryNodesFrom(_, _, _)
CategoryNodesFrom(categories, i, nodes) ==
    IF i > Len(categories) THEN nodes
    ELSE CategoryNodesFrom(categories, i + 1,
            AddUnlessExists(nodes,
                TreeNode(categories[i], categories[i], Undefined, Collapsed)))

\* processRegisteredTutorials started on the root list `nodes`.
processRegisteredTutorials(existingRegistry, nodes) ==
    CategoryNodesFrom(getDidactCategoriesOf(existingRegistry), 1, nodes)

\* The root list refresh() leaves when the registry holds existingRegistry.
RefreshedList(existingRegistry, retrieve) ==
    IF retrieve THEN processRegisteredTutorials(existingRegistry, <<>>) ELSE <<>>


\* new TutorialNode(category, label, uri, collapsibleState, inTooltip) with
\* contextValue set; the description is set only for a truthy inTooltip.
TutorialNode(category, label, uri, collapsibleState, inTooltip) ==
    [kind |-> "TutorialNode", category |-> category, label |-> label,
     uri |-> uri, collapsibleState |-> collapsibleState,
     description |-> inTooltip, contextValue |-> "TutorialNode"]

\* Total minutes extensionFunctions.computeTimeForDidactFileUri may answer
\* for a document; timeOf is the answer per URI at the time of the call.
TimeCounts == {0, 5}
TimeOracles == [Uris -> TimeCounts]

\* The node processTutorialsForCategory builds for one tutorial name.
TutorialNodeFor(existingRegistry, category, tutorial, timeOf) ==
    LET tutUri == getUriForDidactNameAndCategoryOf(existingRegistry, tutorial, category)
        timeCount == IF Truthy(tutUri) THEN timeOf[tutUri] ELSE 0
        timed == Truthy(tutUri) /\ timeCount > 0
    IN TutorialNode(category, tutorial, tutUri,
                    IF timed THEN Collapsed ELSE None,
                    IF timed THEN <<"(~", timeCount, " mins)">> ELSE UndefinedLabel)

RECURSIVE TutorialNodesFrom(_, _, _, _, _, _)
TutorialNodesFrom(existingRegistry, category, tutorials, i, timeOf, children) ==
    IF i > Len(tutorials) THEN children
    ELSE TutorialNodesFrom(existingRegistry, category, tutorials, i + 1, timeOf,
            AddUnlessExists(children,
                TutorialNodeFor(existingRegistry, category, tutorials[i], timeOf)))

\* processTutorialsForCategory(category) when the registry holds
\* existingRegistry.
processTutorialsForCategory(existingRegistry, category, timeOf) ==
    IF Truthy(category)
    THEN TutorialNodesFrom(existingRegistry, category,
             getTutorialsForCategoryOf(existingRegistry, category), 1, timeOf, <<>>)
    ELSE <<>>

\* ---------------------------------------------- strings read by characters
\* Attribute values and tag names are sequences of characters, so that
\* split, startsWith and Number work on them as the code's calls do.
Digits == {"0", "1", "2", "3", "4", "5", "6", "7", "8", "9"}

DigitValue(c) ==
    CASE c = "0" -> 0 [] c = "1" -> 1 [] c = "2" -> 2 [] c = "3" -> 3
      [] c = "4" -> 4 [] c = "5" -> 5 [] c = "6" -> 6 [] c = "7" -> 7
      [] c = "8" -> 8 [] c = "9" -> 9

\* A JavaScript number: NaN, or a value.
NaN == [isNaN |-> TRUE]
Num(n) == [isNaN |-> FALSE, value |-> n]

RECURSIVE DecimalValue(_, _, _)
DecimalValue(s, i, acc) ==
    IF i > Len(s) THEN acc
    ELSE DecimalValue(s, i + 1, 10 * acc + DigitValue(s[i]))

\* JavaScript Number(x) on undefined and on strings of letters, digits and
\* '=': undefined is NaN, the empty string is 0, a digit string is its
\* decimal value, anything else is NaN.
Number(x) ==
    IF x = UndefinedAttr THEN NaN
    ELSE IF \A i \in 1..Len(x) : x[i] \in Digits THEN Num(DecimalValue(x, 1, 0))
    ELSE NaN

NumberIsNaN(v) == v.isNaN

\* String.prototype.split(sep) for a one-character separator.
RECURSIVE SplitFrom(_, _, _, _)
SplitFrom(s, sep, i, cur) ==
    IF i > Len(s) THEN <<cur>>
    ELSE IF s[i] = sep THEN <<cur>> \o SplitFrom(s, sep, i + 1, <<>>)
    ELSE SplitFrom(s, sep, i + 1, Append(cur, s[i]))

split(s, sep) == SplitFrom(s, sep, 1, <<>>)

\* array[1] of a split result: undefined past the end.
SecondOf(parts) == IF Len(parts) >= 2 THEN parts[2] ELSE UndefinedAttr

startsWith(s, prefix) ==
    /\ Len(s) >= Len(prefix)
    /\ SubSeq(s, 1, Len(prefix)) = prefix

\* `(~${timeValue} mins)`
TimeLabel(timeValue) == <<"(~", timeValue.value, " mins)">>

\* -------------------------------------------- nodeProvider.ts: headings
HeadingNode(category, label, uri, description) ==
    [kind |-> "HeadingNode", category |-> category, label |-> label, uri |-> uri,
     collapsibleState |-> None, description |-> description,
     contextValue |-> Undefined]

\* newNode.contextValue = 'HeadingNode'
WithContextValue(node) == [node EXCEPT !.contextValue = "HeadingNode"]

\* A line sent to the output channel; `at` is the position in the heading
\* list of the element being processed when it was sent.
Warning(title, value, at) == [title |-> title, value |-> value, at |-> at]

\* child.tagName.startsWith('H')
IsHeadingChild(child) == startsWith(child.tagName, <<"H">>)

\* The loop over divElement.childNodes of getNodeFromADOCDiv for one
\* time= chunk, from child i on: the node returned, or Undefined when the
\* loop ends, and the warnings sent on the way.
RECURSIVE ADOCChildrenFrom(_, _, _, _, _, _, _, _)
ADOCChildrenFrom(children, i, timeValue, splitTime, tutUri, category, at, out) ==
    IF i > Len(children) THEN [node |-> NoNode, output |-> out]
    ELSE IF children[i].isElement /\ IsHeadingChild(children[i])
    THEN LET title == children[i].innerText IN
         IF ~NumberIsNaN(timeValue)
         THEN [node |-> HeadingNode(category, title, tutUri, TimeLabel(timeValue)),
               output |-> out]
         ELSE ADOCChildrenFrom(children, i + 1, timeValue, splitTime, tutUri,
                               category, at, Append(out, Warning(title, splitTime, at)))
    ELSE ADOCChildrenFrom(children, i + 1, timeValue, splitTime, tutUri,
                          category, at, out)

\* The loop over the chunks of the class attribute, from chunk `count` on.
RECURSIVE ADOCChunksFrom(_, _, _, _, _, _, _)
ADOCChunksFrom(splitArray, count, divElement, tutUri, category, at, out) ==
    IF count > Len(splitArray) THEN [node |-> NoNode, output |-> out]
    ELSE LET chunk == splitArray[count] IN
         IF startsWith(chunk, <<"t", "i", "m", "e", "=">>)
         THEN LET splitTime == SecondOf(split(chunk, "="))
                  timeValue == Number(splitTime)
                  r == ADOCChildrenFrom(divElement.childNodes, 1, timeValue,
                                        splitTime, tutUri, category, at, out)
              IN IF r.node # NoNode THEN r
                 ELSE ADOCChunksFrom(splitArray, count + 1, divElement, tutUri,
                                     category, at, r.output)
         ELSE ADOCChunksFrom(splitArray, count + 1, divElement, tutUri,
                             category, at, out)

\* getNodeFromADOCDiv, called for the element at position `at`.
getNodeFromADOCDiv(divElement, tutUri, category, at) ==
    LET classAttr == divElement.class IN
    IF classAttr # UndefinedAttr /\ classAttr # <<>>
    THEN ADOCChunksFrom(split(classAttr, " "), 1, divElement, tutUri, category,
                        at, <<>>)
    ELSE [node |-> NoNode, output |-> <<>>]

\* One iteration of the Markdown loop of processHeadingsForTutorial.
\* acc: children (the list returned), nodes (the newNode of every element,
\* in order), output (the warnings sent).
MarkdownHeadingStep(acc, heading, at, tutUri, category) ==
    LET timeAttr == heading.time
        timeValue == Number(timeAttr)
        timeLabel == IF ~NumberIsNaN(timeValue) THEN TimeLabel(timeValue)
                     ELSE UndefinedLabel
        title == heading.rawText
        newNode == WithContextValue(HeadingNode(category, title, tutUri, timeLabel))
    IN [children |-> IF ~doesNodeExist(acc.children, newNode)
                        /\ timeLabel # UndefinedLabel
                     THEN addChildNoRefresh(newNode, acc.children)
                     ELSE acc.children,
        nodes |-> Append(acc.nodes, newNode),
        output |-> IF NumberIsNaN(timeValue)
                   THEN Append(acc.output, Warning(title, timeAttr, at))
                   ELSE acc.output]

\* One iteration of the AsciiDoc loop of processHeadingsForTutorial.
AsciiDocHeadingStep(acc, heading, at, tutUri, category) ==
    LET r == getNodeFromADOCDiv(heading, tutUri, category, at)
        newNode == r.node
    IN [children |-> IF newNode # NoNode /\ ~doesNodeExist(acc.children, newNode)
                     THEN addChildNoRefresh(WithContextValue(newNode), acc.children)
                     ELSE acc.children,
        nodes |-> Append(acc.nodes, newNode),
        output |-> acc.output \o r.output]

RECURSIVE HeadingsFrom(_, _, _, _, _, _)
HeadingsFrom(headings, i, asciiDoc, tutUri, category, acc) ==
    IF i > Len(headings) THEN acc
    ELSE HeadingsFrom(headings, i + 1, asciiDoc, tutUri, category,
            IF asciiDoc
            THEN AsciiDocHeadingStep(acc, headings[i], i, tutUri, category)
            ELSE MarkdownHeadingStep(acc, headings[i], i, tutUri, category))

\* extensionFunctions.isAsciiDoc: the document's extension is .didact.adoc.
isAsciiDoc(uri) == uri = "u2.didact.adoc"

NoHeadings == [children |-> <<>>, nodes |-> <<>>, output |-> <<>>]

\* processHeadingsForTutorial(tutUri, category), where `headings` is what
\* getTimeElementsForDidactFileUri answers for tutUri (a list of elements,
\* or undefined).
processHeadingsForTutorial(tutUri, category, headings) ==
    IF Truthy(tutUri) /\ headings # NoElements
    THEN HeadingsFrom(headings, 1, isAsciiDoc(tutUri), tutUri, category, NoHeadings)
    ELSE NoHeadings

\* ------------------------------------------------ documents of the model
TimeAttrs ==
    { UndefinedAttr, <<>>, <<"a", "b", "c">>, <<"5">>, <<"1", "0">> }

Titles == {"Step One", "Details"}

TextNode(text) == [isElement |-> FALSE, tagName |-> <<>>, innerText |-> text]
Element(tagName, text) == [isElement |-> TRUE, tagName |-> tagName, innerText |-> text]

H2 == <<"H", "2">>
H3 == <<"H", "3">>
HR == <<"H", "R">>
P == <<"P">>
DIV == <<"D", "I", "V">>

\* A heading produced by the Markdown converter: <h2 time="...">title</h2>.
MarkdownHeadings ==
    { [tagName |-> H2, time |-> t, class |-> UndefinedAttr, rawText |-> title,
       childNodes |-> <<>>] : t \in TimeAttrs, title \in Titles }

ClassAttrs ==
    { UndefinedAttr,
      <<"t", "i", "m", "e", "=", "1", "0", " ", "f", "o", "o">>,
      <<"f", "o", "o", " ", "t", "i", "m", "e", "=", "a", "b", "c">>,
      <<"t", "i", "m", "e", "=">>,
      <<"s", "e", "c", "t", "1">> }

ChildLists ==
    { <<>>,
      <<Element(H2, "Step One")>>,
      <<TextNode("\n"), Element(H2, "Step One")>>,
      <<Element(HR, ""), Element(H2, "Step One")>>,
      <<Element(P, "para"), Element(H3, "Details")>>,
      <<Element(P, "para")>> }

\* A div of the AsciiDoc converter's output: <div class="...">children</div>.
AsciiDocDivs ==
    { [tagName |-> DIV, time |-> UndefinedAttr, class |-> c, rawText |-> "",
       childNodes |-> ch] : c \in ClassAttrs, ch \in ChildLists }

Elements == MarkdownHeadings \cup AsciiDocDivs

RECURSIVE SeqsUpTo(_, _)
SeqsUpTo(S, n) ==
    IF n = 0 THEN {<<>>}
    ELSE LET shorter == SeqsUpTo(S, n - 1) IN
         shorter \cup {Append(q, x) : q \in shorter, x \in S}

TutUris == {Undefined} \cup Uris

\* The calls of processHeadingsForTutorial the model explores.
HeadingCalls ==
    [tutUri : TutUris, category : {"cat"},
     headings : {NoElements} \cup SeqsUpTo(Elements, MaxHeadings)]

NoCall == [phase |-> "none"]

\* extension.refreshTreeview(): asks the provider of the tutorials view to
\* refresh; the root list it leaves.
refreshTreeview(existingRegistry, retrieve) == RefreshedList(existingRegistry, retrieve)

\* ------------------------------------------------------------ operations
NoOp == [op |-> "init", name |-> "", category |-> "", sourceUri |-> "",
         threw |-> FALSE, wrote |-> FALSE, refreshed |-> FALSE]

\* The parts of the state a specification does not use stay idle.
NoExpand == [phase |-> "none"]
NoDispatch == [phase |-> "none"]
NoCalls == [phase |-> "none"]

Init ==
    /\ registered = NoValue
    /\ treeNodes = <<>>
    /\ retrieveTutorials = TRUE
    /\ last = NoOp
    /\ hcall = NoCall
    /\ expand = NoExpand
    /\ disp = NoDispatch
    /\ calls = NoCalls

registerTutorial(name, sourceUri, category) ==
    LET existingRegistry == getRegisteredTutorials IN
    IF RegisterThrows(existingRegistry, name, category)
    THEN /\ last' = [op |-> "register", name |-> name, category |-> category,
                     sourceUri |-> sourceUri, threw |-> TRUE,
                     wrote |-> FALSE, refreshed |-> FALSE]
         /\ UNCHANGED <<registered, treeNodes, retrieveTutorials, hcall, expand, disp, calls>>
    ELSE LET toWrite == RegistryToWrite(existingRegistry, name, sourceUri, category) IN
         /\ Len(toWrite) <= MaxReg
         /\ registered' = ListValue(toWrite)
         /\ treeNodes' = refreshTreeview(registered', retrieveTutorials)
         /\ last' = [op |-> "register", name |-> name, category |-> category,
                     sourceUri |-> sourceUri, threw |-> FALSE,
                     wrote |-> TRUE, refreshed |-> TRUE]
         /\ UNCHANGED <<retrieveTutorials, hcall, expand, disp, calls>>

clearRegisteredTutorials ==
    /\ registered' = ClearedValue
    /\ last' = [NoOp EXCEPT !.op = "clear", !.wrote = TRUE]
    /\ UNCHANGED <<treeNodes, retrieveTutorials, hcall, expand, disp, calls>>

refresh ==
    /\ treeNodes' = RefreshedList(getRegisteredTutorials, retrieveTutorials)
    /\ last' = [NoOp EXCEPT !.op = "refresh", !.refreshed = TRUE]
    /\ UNCHANGED <<registered, retrieveTutorials, hcall, expand, disp, calls>>

Register ==
    \E name \in Names, sourceUri \in Uris, category \in Categories :
        registerTutorial(name, sourceUri, category)

Next ==
    \/ Register
    \/ clearRegisteredTutorials
    \/ refresh

Spec == Init /\ [][Next]_vars

\* ------------------------------------------------- heading processing
InitHeadings ==
    /\ registered = NoValue
    /\ treeNodes = <<>>
    /\ retrieveTutorials = TRUE
    /\ last = NoOp
    /\ expand = NoExpand
    /\ disp = NoDispatch
    /\ calls = NoCalls
    /\ \E c \in HeadingCalls :
           hcall = [phase |-> "called", tutUri |-> c.tutUri,
                    category |-> c.category, headings |-> c.headings]

\* getChildren(tutorialNode): the provider processes the tutorial's headings.
getChildrenOfTutorial ==
    /\ hcall.phase = "called"
    /\ LET r == processHeadingsForTutorial(hcall.tutUri, hcall.category,
                                           hcall.headings)
       IN hcall' = [phase |-> "done", tutUri |-> hcall.tutUri,
                    category |-> hcall.category, headings |-> hcall.headings,
                    children |-> r.children, nodes |-> r.nodes,
                    output |-> r.output]
    /\ UNCHANGED <<registered, treeNodes, retrieveTutorials, last, expand, disp, calls>>

NextHeadings == getChildrenOfTutorial

SpecHeadings == InitHeadings /\ [][NextHeadings]_vars

\* ------------------------------------------------------- the whole view
\* Heading processing reads neither the registry nor the root list, and the
\* registry operations do not read a heading call.  SpecView is the union
\* of the two: a behaviour of Spec, or a behaviour of SpecHeadings.
InitView == Init \/ InitHeadings

NextView ==
    \/ hcall.phase = "none" /\ Next
    \/ NextHeadings

SpecView == InitView /\ [][NextView]_vars

\* ------------------------------------- expanding a category and a tutorial
\* The estimate one time element adds to a tutorial's total: the number of
\* its time token, nothing when the token is not a number.
ElementEstimate(element, asciiDoc) ==
    LET chunks == IF element.class = UndefinedAttr THEN <<>>
                  ELSE SelectSeq(split(element.class, " "),
                                 LAMBDA c : startsWith(c, <<"t", "i", "m", "e", "=">>))
        timeValue == IF ~asciiDoc THEN Number(element.time)
                     ELSE IF chunks = <<>> THEN NaN
                     ELSE Number(SecondOf(split(chunks[1], "=")))
    IN IF NumberIsNaN(timeValue) THEN 0 ELSE timeValue.value

RECURSIVE EstimatesFrom(_, _, _, _)
EstimatesFrom(headings, i, asciiDoc, total) ==
    IF i > Len(headings) THEN total
    ELSE EstimatesFrom(headings, i + 1, asciiDoc,
                       total + ElementEstimate(headings[i], asciiDoc))

\* extensionFunctions.computeTimeForDidactFileUri(uri): the total of the
\* time estimates of the document's time elements, `headings` being what
\* getTimeElementsForDidactFileUri answers for uri.
computeTimeForDidactFileUri(uri, headings) ==
    IF Truthy(uri) /\ headings # NoElements
    THEN EstimatesFrom(headings, 1, isAsciiDoc(uri), 0)
    ELSE 0

\* The documents behind the registered URIs: Markdown headings with the
\* time tokens "0", "5" and "abc", AsciiDoc divs with and without a time
\* class around a heading.
ExpandTimeAttrs == { <<"0">>, <<"5">>, <<"a", "b", "c">> }

ExpandHeadings ==
    { [tagName |-> H2, time |-> t, class |-> UndefinedAttr, rawText |-> title,
       childNodes |-> <<>>] : t \in ExpandTimeAttrs, title \in Titles }

ExpandDivs ==
    { [tagName |-> DIV, time |-> UndefinedAttr, class |-> c, rawText |-> "",
       childNodes |-> <<Element(H2, "Step One")>>] :
          c \in { <<"t", "i", "m", "e", "=", "1", "0", " ", "f", "o", "o">>,
                  <<"s", "e", "c", "t", "1">> } }

ExpandDocuments ==
    [uri : {"u1.didact.md"}, headings : SeqsUpTo(ExpandHeadings, MaxHeadings)]
    \cup [uri : {"u2.didact.adoc"}, headings : SeqsUpTo(ExpandDivs, MaxHeadings)]

\* JavaScript null, where a node is expected.
NullNode == [kind |-> "null"]

\* findCategoryNode(category) over the root list `nodes`.
findCategoryNode(category, nodes) ==
    LET nodeToFind == TreeNode(category, category, Undefined, Collapsed) IN
    IF doesNodeExist(nodes, nodeToFind) THEN nodeToFind ELSE NullNode

\* The forEach of findHeadingNode: every match overwrites foundNode.
FoundNode(treeItems, category, uri) ==
    LET matches == SelectSeq(treeItems,
                       LAMBDA element : /\ element.uri = uri
                                        /\ element.category = category)
    IN IF matches = <<>> THEN NullNode ELSE matches[Len(matches)]

\* findHeadingNode(category, uri): getChildren(catNode) is
\* processTutorialsForCategory for the category's label.
findHeadingNode(category, uri, existingRegistry, nodes, timeOf) ==
    LET catNode == findCategoryNode(category, nodes) IN
    IF catNode # NullNode
    THEN FoundNode(IF Truthy(catNode.label)
                   THEN processTutorialsForCategory(existingRegistry, catNode.label, timeOf)
                   ELSE <<>>,
                   category, uri)
    ELSE NullNode

\* getParent(element).
getParent(element, existingRegistry, nodes, timeOf) ==
    IF element.kind = "TutorialNode" /\ Truthy(element.category)
    THEN findCategoryNode(element.category, nodes)
    ELSE IF element.kind = "HeadingNode" /\ Truthy(element.category) /\ Truthy(element.uri)
    THEN findHeadingNode(element.category, element.uri, existingRegistry, nodes, timeOf)
    ELSE NullNode

\* Names the tutorials of a document are registered under.
ExpandNames == {"foo", "bar", ""}

\* What getTimeElementsForDidactFileUri answers for uri: the document of
\* the behaviour for its URI, nothing for another.
DocumentAt(uri) == IF uri = expand.uri THEN expand.headings ELSE NoElements

\* The answers of computeTimeForDidactFileUri over the documents.
TimeOfDocuments == [u \in Uris |-> computeTimeForDidactFileUri(u, DocumentAt(u))]

InitExpand ==
    /\ registered = NoValue
    /\ treeNodes = <<>>
    /\ retrieveTutorials = TRUE
    /\ last = NoOp
    /\ hcall = NoCall
    /\ disp = NoDispatch
    /\ calls = NoCalls
    /\ \E doc \in ExpandDocuments :
           expand = [phase |-> "closed", uri |-> doc.uri, headings |-> doc.headings,
                     tutorials |-> <<>>, opened |-> 0, headingNodes |-> <<>>,
                     asked |-> NoNode, parent |-> NullNode]

\* A tutorial is registered for the document, or without a URI.
RegisterDocumented ==
    /\ expand.phase = "closed"
    /\ \E name \in ExpandNames, sourceUri \in {expand.uri, ""} :
           registerTutorial(name, sourceUri, "cat")

\* getChildren(categoryNode) for a node of the root list.
getChildrenOfCategory ==
    /\ expand.phase = "closed"
    /\ \E i \in 1..Len(treeNodes) :
           expand' = [expand EXCEPT
                         !.phase = "listed",
                         !.tutorials = processTutorialsForCategory(
                                           getRegisteredTutorials,
                                           treeNodes[i].label, TimeOfDocuments)]
    /\ UNCHANGED <<registered, treeNodes, retrieveTutorials, last, hcall, disp, calls>>

\* getChildren(tutorialNode) for a node of the list just produced.
getChildrenOfTutorialNode ==
    /\ expand.phase = "listed"
    /\ \E k \in 1..Len(expand.tutorials) :
           LET element == expand.tutorials[k] IN
           expand' = [expand EXCEPT
                         !.phase = "expanded",
                         !.opened = k,
                         !.headingNodes = processHeadingsForTutorial(
                                              element.uri, element.category,
                                              DocumentAt(element.uri)).children]
    /\ UNCHANGED <<registered, treeNodes, retrieveTutorials, last, hcall, disp, calls>>

\* The nodes the view holds: the root list, the tutorials listed and the
\* headings of the tutorial opened.
NodesShown ==
    {treeNodes[i] : i \in 1..Len(treeNodes)}
    \cup {expand.tutorials[i] : i \in 1..Len(expand.tutorials)}
    \cup {expand.headingNodes[i] : i \in 1..Len(expand.headingNodes)}

\* getParent(element) for a node the view holds.
getParentOfNode ==
    /\ expand.phase \in {"listed", "expanded"}
    /\ expand.asked = NoNode
    /\ \E element \in NodesShown :
           expand' = [expand EXCEPT
                         !.asked = element,
                         !.parent = getParent(element, getRegisteredTutorials,
                                              treeNodes, TimeOfDocuments)]
    /\ UNCHANGED <<registered, treeNodes, retrieveTutorials, last, hcall, disp, calls>>

\* The registry is cleared, or the root list refreshed, under a view that
\* has listed nodes.
ChangeUnderView ==
    /\ expand.phase \in {"listed", "expanded"}
    /\ expand.asked = NoNode
    /\ \/ clearRegisteredTutorials
       \/ refresh

NextExpand ==
    \/ RegisterDocumented
    \/ getChildrenOfCategory
    \/ getChildrenOfTutorialNode
    \/ getParentOfNode
    \/ ChangeUnderView

SpecExpand == InitExpand /\ [][NextExpand]_vars

\* ------------------------------------------------- the action dispatcher
\* One run of the dispatcher over the actions extracted from a document.
\* Every action goes Pending -> Resolving-Parameters -> Invoking ->
\* Succeeded or Failed; the next action is dispatched when the one before
\* has settled; closing the view stops the dispatch of queued actions.
\* plan[i] says whether the capability invoked for action i fails.
DispatchPlans ==
    UNION {[1..n -> BOOLEAN] : n \in 0..MaxActions}

\* Faulty variant of AfterSettlement: a failure ends the run.
AfterSettlementAbort(next, failed, n) == IF failed THEN n + 1 ELSE next + 1

\* The position dispatched after action `next` of n has settled: the
\* following one, whether it failed or not.
AfterSettlement(next, failed, n) == next + 1

InitDispatch ==
    /\ registered = NoValue
    /\ treeNodes = <<>>
    /\ retrieveTutorials = TRUE
    /\ last = NoOp
    /\ hcall = NoCall
    /\ expand = NoExpand
    /\ calls = NoCalls
    /\ \E plan \in DispatchPlans :
           disp = [phase |-> "run", plan |-> plan,
                   status |-> [i \in 1..Len(plan) |-> "Pending"],
                   invocations |-> [i \in 1..Len(plan) |-> 0],
                   failures |-> <<>>, next |-> 1, closed |-> FALSE]

\* The next queued action is taken up.
dispatchNext ==
    /\ disp.phase = "run"
    /\ ~disp.closed
    /\ disp.next <= Len(disp.plan)
    /\ disp.status[disp.next] = "Pending"
    /\ disp' = [disp EXCEPT !.status[disp.next] = "Resolving-Parameters"]
    /\ UNCHANGED <<registered, treeNodes, retrieveTutorials, last, hcall, expand, calls>>

\* Its parameters are resolved and the capability is invoked.
invoke ==
    /\ disp.phase = "run"
    /\ disp.next <= Len(disp.plan)
    /\ disp.status[disp.next] = "Resolving-Parameters"
    /\ disp' = [disp EXCEPT !.status[disp.next] = "Invoking",
                            !.invocations[disp.next] = @ + 1]
    /\ UNCHANGED <<registered, treeNodes, retrieveTutorials, last, hcall, expand, calls>>

\* The invocation settles: success, or a failure reported at the link.
settle ==
    /\ disp.phase = "run"
    /\ disp.next <= Len(disp.plan)
    /\ disp.status[disp.next] = "Invoking"
    /\ LET failed == disp.plan[disp.next] IN
       disp' = [disp EXCEPT
                   !.status[disp.next] = IF failed THEN "Failed" ELSE "Succeeded",
                   !.failures = IF failed THEN Append(@, disp.next) ELSE @,
                   !.next = AfterSettlement(disp.next, failed, Len(disp.plan))]
    /\ UNCHANGED <<registered, treeNodes, retrieveTutorials, last, hcall, expand, calls>>

\* The tutorial view is closed while actions are queued.
closeView ==
    /\ disp.phase = "run"
    /\ ~disp.closed
    /\ disp.next <= Len(disp.plan)
    /\ disp' = [disp EXCEPT !.closed = TRUE]
    /\ UNCHANGED <<registered, treeNodes, retrieveTutorials, last, hcall, expand, calls>>

NextDispatch ==
    \/ dispatchNext
    \/ invoke
    \/ settle
    \/ closeView

SpecDispatch == InitDispatch /\ [][NextDispatch]_vars

\* ------------------------------------------- the provider called directly
\* Nodes handed to addChild: none is a node processRegisteredTutorials
\* builds.
AddableNodes ==
    { TreeNode(Undefined, "extra", Undefined, None),
      TutorialNode("cat", "foo", "u1.didact.md", None, UndefinedLabel) }

\* addChild(newNode, disableRefresh) with oldNodes = this.treeNodes: the
\* node is pushed onto the array the provider holds; refresh() then gives
\* the provider a new array, and the array pushed onto is returned.
addChild(newNode, disableRefresh) ==
    LET oldNodes == Append(treeNodes, newNode) IN
    /\ disableRefresh => Len(oldNodes) <= MaxNodes
    /\ treeNodes' = IF disableRefresh THEN oldNodes
                    ELSE RefreshedList(getRegisteredTutorials, retrieveTutorials)
    /\ last' = [op |-> "addChild", name |-> "", category |-> "", sourceUri |-> "",
                threw |-> FALSE, wrote |-> FALSE, refreshed |-> ~disableRefresh,
                newNode |-> newNode, disableRefresh |-> disableRefresh,
                returned |-> oldNodes]
    /\ UNCHANGED <<registered, retrieveTutorials, hcall, expand, disp, calls>>

AddChild ==
    \E newNode \in AddableNodes, disableRefresh \in BOOLEAN :
        addChild(newNode, disableRefresh)

setRetrieveIntegrations(flag) ==
    /\ retrieveTutorials' = flag
    /\ last' = [NoOp EXCEPT !.op = "setRetrieveIntegrations"]
    /\ UNCHANGED <<registered, treeNodes, hcall, expand, disp, calls>>

SetRetrieveIntegrations == \E flag \in BOOLEAN : setRetrieveIntegrations(flag)

NextProvider ==
    \/ Next
    \/ AddChild
    \/ SetRetrieveIntegrations

SpecProvider == Init /\ [][NextProvider]_vars

\* ------------------------------------------ registerTutorial, overlapping
\* Two callers invoke registerTutorial without awaiting each other.  A call
\* runs from its start to the await of configuration.update in one go (it
\* reads the registry and hands over the list to write); the update
\* completes later; the call then resumes and refreshes the view.
Callers == {1, 2}

\* Names the callers register: those of Names and one that differs from
\* them in more than case.
AsyncNames == Names \cup {"bar"}

IdleCall == [pc |-> "idle", name |-> "", category |-> "", sourceUri |-> "",
             toWrite |-> <<>>, threw |-> FALSE, readBeforeWrite |-> FALSE]

InitAsync ==
    /\ registered = NoValue
    /\ treeNodes = <<>>
    /\ retrieveTutorials = TRUE
    /\ last = NoOp
    /\ hcall = NoCall
    /\ expand = NoExpand
    /\ disp = NoDispatch
    /\ calls = [phase |-> "async", call |-> [c \in Callers |-> IdleCall]]

\* Another call has issued its update, which has not completed.
UpdatePending(c) ==
    \E o \in Callers \ {c} : calls.call[o].pc = "awaiting"

\* Lines 77-109 up to the await: the registry is read, the duplicate check
\* made, and the update of the whole list issued.
registerTutorialStart(c, name, sourceUri, category) ==
    LET existingRegistry == getRegisteredTutorials
        threw == RegisterThrows(existingRegistry, name, category)
    IN
    /\ calls.phase = "async"
    /\ calls.call[c].pc = "idle"
    /\ calls' = [calls EXCEPT !.call[c] =
                    [pc |-> IF threw THEN "done" ELSE "awaiting",
                     name |-> name, category |-> category, sourceUri |-> sourceUri,
                     toWrite |-> IF threw THEN <<>>
                                 ELSE RegistryToWrite(existingRegistry, name,
                                                      sourceUri, category),
                     threw |-> threw,
                     readBeforeWrite |-> UpdatePending(c)]]
    /\ UNCHANGED <<registered, treeNodes, retrieveTutorials, last, hcall, expand, disp>>

\* The configuration update of call c completes: the value under the key
\* is the list the call handed over.
updateCompletes(c) ==
    /\ calls.phase = "async"
    /\ calls.call[c].pc = "awaiting"
    /\ registered' = ListValue(calls.call[c].toWrite)
    /\ calls' = [calls EXCEPT !.call[c].pc = "written"]
    /\ UNCHANGED <<treeNodes, retrieveTutorials, last, hcall, expand, disp>>

\* Lines 111-112: the call resumes after the await and refreshes the view.
registerTutorialResume(c) ==
    /\ calls.phase = "async"
    /\ calls.call[c].pc = "written"
    /\ treeNodes' = refreshTreeview(getRegisteredTutorials, retrieveTutorials)
    /\ calls' = [calls EXCEPT !.call[c].pc = "done"]
    /\ UNCHANGED <<registered, retrieveTutorials, last, hcall, expand, disp>>

NextAsync ==
    \/ \E c \in Callers, name \in AsyncNames, sourceUri \in Uris, category \in Categories :
           registerTutorialStart(c, name, sourceUri, category)
    \/ \E c \in Callers : updateCompletes(c)
    \/ \E c \in Callers : registerTutorialResume(c)

SpecAsync == InitAsync /\ [][NextAsync]_vars

\* ================================================================ claims
\* Helpers of the statements (not models of code).
RegistryList == IF registered.defined THEN registered.list ELSE <<>>

EntryAt(i) == JSONparse(RegistryList[i])

RegisterSucceeded == last.op = "register" /\ ~last.threw

\* The subsequence of q at the positions satisfying Keep, mapped by F.
MapFilter(q, Keep(_), F(_)) ==
    LET kept == SelectSeq(q, Keep) IN [i \in 1..Len(kept) |-> F(kept[i])]

NoRepeats(q) == \A i, j \in 1..Len(q) : i # j => q[i] # q[j]

\* ---- C1
\* C1 (as claimed): no two entries of the persisted registry share both
\* name and category compared case-insensitively.  Stated here for entries
\* whose name and category are non-empty, which is already violated.
C1_UniqueNameCategory ==
    \A i, j \in 1..Len(RegistryList) :
        (/\ i < j
         /\ Truthy(EntryAt(i).name) /\ Truthy(EntryAt(i).category)
         /\ Truthy(EntryAt(j).name) /\ Truthy(EntryAt(j).category))
        => ~(/\ toLowerCase(EntryAt(i).name) = toLowerCase(EntryAt(j).name)
             /\ toLowerCase(EntryAt(i).category) = toLowerCase(EntryAt(j).category))

\* ---- C2
\* C2: a registerTutorial call either throws because an entry equal in name
\* and category ignoring case exists, leaving the registry and the root list
\* as they were, with no configuration write and no refresh; or it succeeds,
\* and the registry is the previous list, in order, with the one new entry
\* {name, category, sourceUri} appended at the end.
C2_RegisterTwoOutcomes ==
    [][last'.op = "register" =>
        \/ /\ last'.threw
           /\ \E i \in 1..Len(RegistryList) :
                  /\ toLowerCase(EntryAt(i).name) = toLowerCase(last'.name)
                  /\ toLowerCase(EntryAt(i).category) = toLowerCase(last'.category)
           /\ registered' = registered
           /\ treeNodes' = treeNodes
           /\ ~last'.wrote
           /\ ~last'.refreshed
        \/ /\ ~last'.threw
           /\ last'.wrote
           /\ registered'.defined
           /\ registered'.list =
                  RegistryList \o <<<<last'.name, last'.category, last'.sourceUri>>>>
      ]_vars

\* A duplicate was refused while the registry held two entries.
C2_Witness ==
    /\ last.op = "register"
    /\ last.threw
    /\ Len(RegistryList) = 2

\* ---- C3
\* C3 (as claimed): after a successful registerTutorial(name, uri, category),
\* getUriForDidactNameAndCategory(name, category) is that uri.  Stated here
\* for non-empty name, category and uri, which is already violated.
C3_RoundTrip ==
    (/\ RegisterSucceeded
     /\ Truthy(last.name) /\ Truthy(last.category) /\ Truthy(last.sourceUri))
    => getUriForDidactNameAndCategory(last.name, last.category) = last.sourceUri

\* ---- C4
NameOf(entry) == JSONparse(entry).name
CategoryOf(entry) == JSONparse(entry).category

\* C4 (as claimed): getTutorialsForCategory(category) is exactly the names of
\* the entries whose category equals the argument, in registration order.
C4_ExactCaseTutorials ==
    \A c \in Categories :
        getTutorialsForCategory(c) =
            MapFilter(RegistryList, LAMBDA e : CategoryOf(e) = c, NameOf)

\* C4 (amended): getTutorialsForCategory(category) is exactly the names of
\* the entries that have a non-empty name and a non-empty category equal to
\* the argument with exact case, in registration order; an argument that no
\* entry's category equals exactly, such as one differing only by letter
\* case, yields the empty list.
C4_ExactCaseNonEmpty ==
    \A c \in Categories :
        /\ getTutorialsForCategory(c) =
               MapFilter(RegistryList,
                         LAMBDA e : CategoryOf(e) = c /\ c # "" /\ NameOf(e) # "",
                         NameOf)
        /\ (\A i \in 1..Len(RegistryList) : EntryAt(i).category # c)
               => getTutorialsForCategory(c) = <<>>

\* Only "Cat" is registered: "Cat" lists its tutorial, "cat" lists nothing,
\* although registerTutorial("foo", _, "cat") would be refused as a duplicate.
C4_Witness ==
    /\ getTutorialsForCategory("Cat") = <<"foo">>
    /\ getTutorialsForCategory("cat") = <<>>
    /\ RegisterThrows(registered, "foo", "cat")

\* ---- C5
\* C5 (as claimed): getDidactCategories() contains no category twice.
C5_DistinctCategories == NoRepeats(getDidactCategories)

\* C5 (amended): getDidactCategories() is the category of every registration
\* that has a non-empty category, in registration order, one element per
\* registration: a category shared by several tutorials appears once per
\* tutorial (the duplicates are removed later, by the tree provider).
C5_CategoryPerRegistration ==
    getDidactCategories =
        MapFilter(RegistryList, LAMBDA e : CategoryOf(e) # "", CategoryOf)

\* Two tutorials are registered under one category.
C5_Witness ==
    /\ Len(getDidactCategories) = 2
    /\ getDidactCategories[1] = getDidactCategories[2]

\* ---- C6
\* C6: once clearRegisteredTutorials has completed the store is empty: no
\* categories, no tutorials under any category, no URI for any name and
\* category, and registerTutorial of any name and category succeeds.
C6_ClearEmpties ==
    last.op = "clear" =>
        /\ getDidactCategories = <<>>
        /\ \A c \in Categories : getTutorialsForCategory(c) = <<>>
        /\ \A n \in Names, c \in Categories :
               /\ getUriForDidactNameAndCategory(n, c) = Undefined
               /\ ~RegisterThrows(getRegisteredTutorials, n, c)

\* The registry was cleared after categories had been registered (the root
\* list still shows them).
C6_Witness ==
    /\ last.op = "clear"
    /\ Len(treeNodes) = 2

\* ---- C7
RootLabels == {treeNodes[i].label : i \in 1..Len(treeNodes)}
RegisteredCategories ==
    {EntryAt(i).category : i \in 1..Len(RegistryList)} \ {""}

\* C7 (as claimed): after every completed operation that changes the
\* registry (a successful registerTutorial, a clearRegisteredTutorials) the
\* root list holds exactly one node per distinct registered category and no
\* node of a category that is no longer registered.
C7_RootFollowsRegistry ==
    (RegisterSucceeded \/ last.op = "clear") =>
        /\ RootLabels = RegisteredCategories
        /\ Len(treeNodes) = Cardinality(RegisteredCategories)

\* ---- C8
NoDupLabels(nodes) ==
    \A i, j \in 1..Len(nodes) : i # j => nodes[i].label # nodes[j].label

\* result is candidates with, of the nodes sharing a label, only the first
\* in order kept.
IsFirstByLabel(result, candidates) ==
    LET firsts == {i \in 1..Len(candidates) :
                      \A j \in 1..(i - 1) : candidates[j].label # candidates[i].label}
        Nth(k) == CHOOSE i \in firsts : Cardinality({j \in firsts : j < i}) = k - 1
    IN /\ NoDupLabels(result)
       /\ Len(result) = Cardinality(firsts)
       /\ \A k \in 1..Len(result) : result[k] = candidates[Nth(k)]

\* The nodes the three provider loops build, before de-duplication.
CategoryCandidates ==
    [i \in 1..Len(getDidactCategories) |->
        TreeNode(getDidactCategories[i], getDidactCategories[i], Undefined, Collapsed)]

TutorialCandidates(c, timeOf) ==
    [i \in 1..Len(getTutorialsForCategory(c)) |->
        TutorialNodeFor(getRegisteredTutorials, c, getTutorialsForCategory(c)[i], timeOf)]

HeadingCandidates ==
    IF isAsciiDoc(hcall.tutUri)
    THEN LET built == SelectSeq(hcall.nodes, LAMBDA n : n # NoNode)
         IN [i \in 1..Len(built) |-> WithContextValue(built[i])]
    ELSE SelectSeq(hcall.nodes, LAMBDA n : n.description # UndefinedLabel)

\* C8: every list the provider produces for the view has no two nodes with
\* one label, and of the candidates sharing a label the first in source
\* order is the one kept: the root list after a refresh, the tutorial list of
\* processTutorialsForCategory (for every category and every answer of the
\* time computation), and the heading list of processHeadingsForTutorial
\* (the candidates being the headings that have a time label).
C8_SiblingsDistinctByLabel ==
    /\ (last.op = "refresh" \/ RegisterSucceeded) =>
           /\ NoDupLabels(treeNodes)
           /\ retrieveTutorials => IsFirstByLabel(treeNodes, CategoryCandidates)
    /\ \A c \in Categories, timeOf \in TimeOracles :
           IsFirstByLabel(processTutorialsForCategory(getRegisteredTutorials, c, timeOf),
                          TutorialCandidates(c, timeOf))
    /\ hcall.phase = "done" => IsFirstByLabel(hcall.children, HeadingCandidates)

\* Two tutorials "Foo" are registered under "cat": the refreshed root list
\* holds one "cat" node and the tutorial list of "cat" one "Foo" node.
C8_Witness ==
    /\ RegisterSucceeded
    /\ getDidactCategories = <<"cat", "cat">>
    /\ Len(treeNodes) = 1
    /\ getTutorialsForCategory("cat") = <<"Foo", "Foo">>
    /\ \A timeOf \in TimeOracles :
           Len(processTutorialsForCategory(getRegisteredTutorials, "cat", timeOf)) = 1

\* ---- C9
MarkdownCall ==
    /\ hcall.phase = "done"
    /\ Truthy(hcall.tutUri)
    /\ ~isAsciiDoc(hcall.tutUri)
    /\ hcall.headings # NoElements

AsciiDocCall ==
    /\ hcall.phase = "done"
    /\ Truthy(hcall.tutUri)
    /\ isAsciiDoc(hcall.tutUri)
    /\ hcall.headings # NoElements

\* A token that is a number: one digit or more.
IsNumericToken(t) ==
    /\ t # UndefinedAttr
    /\ Len(t) > 0
    /\ \A i \in 1..Len(t) : t[i] \in Digits

\* The warnings sent while element i was processed.
WarningsAt(i) ==
    Cardinality({k \in 1..Len(hcall.output) : hcall.output[k].at = i})

\* C9 (as claimed): of the Markdown headings processed, one whose time token
\* is not a number or is missing gets no time estimate (never 0) and exactly
\* one warning; one whose token is a number N gets "(~N mins)" and no
\* warning.
C9_MarkdownTimeToken ==
    MarkdownCall =>
        \A i \in 1..Len(hcall.headings) :
            LET t == hcall.headings[i].time IN
            IF IsNumericToken(t)
            THEN /\ hcall.nodes[i].description = <<"(~", DecimalValue(t, 1, 0), " mins)">>
                 /\ WarningsAt(i) = 0
            ELSE /\ hcall.nodes[i].description = UndefinedLabel
                 /\ WarningsAt(i) = 1

\* ---- C10
HeadingTags ==
    { <<"H", "1">>, <<"H", "2">>, <<"H", "3">>, <<"H", "4">>, <<"H", "5">>, <<"H", "6">> }

TimePrefix == <<"t", "i", "m", "e", "=">>

\* The class tokens of the form time=N, N a number.
NumericTimeTokens(classAttr) ==
    IF classAttr = UndefinedAttr THEN <<>>
    ELSE SelectSeq(split(classAttr, " "),
                   LAMBDA t : /\ startsWith(t, TimePrefix)
                              /\ IsNumericToken(SubSeq(t, Len(TimePrefix) + 1, Len(t))))

\* The children that are elements with a tag among H1..H6.
HeadingChildren(div) ==
    SelectSeq(div.childNodes, LAMBDA ch : ch.isElement /\ ch.tagName \in HeadingTags)

\* C10 (as claimed): for a div whose class list has a token time=N, N a
\* number, and which has a child with a tag among H1..H6, getNodeFromADOCDiv
\* answers a heading node titled with the text of the first such child and
\* described "(~N mins)".
C10_AsciiDocDivHeading ==
    AsciiDocCall =>
        \A i \in 1..Len(hcall.headings) :
            LET div == hcall.headings[i]
                times == NumericTimeTokens(div.class)
                heads == HeadingChildren(div)
            IN (times # <<>> /\ heads # <<>>) =>
                   /\ hcall.nodes[i] # NoNode
                   /\ hcall.nodes[i].label = heads[1].innerText
                   /\ hcall.nodes[i].description =
                          <<"(~", DecimalValue(SubSeq(times[1], Len(TimePrefix) + 1,
                                                      Len(times[1])), 1, 0), " mins)">>

\* ---- C11
\* Element i of the processed document carries a valid time estimate: a
\* Markdown heading whose time token is a number; an AsciiDoc div with a
\* class token time=N, N a number, and a child heading H1..H6.
HasValidEstimate(i) ==
    IF isAsciiDoc(hcall.tutUri)
    THEN /\ NumericTimeTokens(hcall.headings[i].class) # <<>>
         /\ HeadingChildren(hcall.headings[i]) # <<>>
    ELSE IsNumericToken(hcall.headings[i].time)

\* The title of the heading that element i is.
HeadingTitle(i) ==
    IF isAsciiDoc(hcall.tutUri)
    THEN HeadingChildren(hcall.headings[i])[1].innerText
    ELSE hcall.headings[i].rawText

\* The titles of the document's headings with a valid time estimate, in
\* document order.
TimedHeadings ==
    LET positions == SelectSeq([i \in 1..Len(hcall.headings) |-> i], HasValidEstimate)
    IN [k \in 1..Len(positions) |-> [label |-> HeadingTitle(positions[k])]]

\* C11 (as claimed): the heading children returned for a tutorial are the
\* document's headings that carry a valid time estimate, in document order,
\* the first occurrence per label: no heading without a valid estimate is
\* among them, and every heading with one is, on the Markdown and on the
\* AsciiDoc path.
C11_ChildrenAreTimedHeadings ==
    (MarkdownCall \/ AsciiDocCall) =>
        IsFirstByLabel([k \in 1..Len(hcall.children) |-> [label |-> hcall.children[k].label]],
                       TimedHeadings)

\* ---- C12
\* C12 (as claimed): a tutorial node produced by processTutorialsForCategory
\* is Collapsed exactly when processHeadingsForTutorial for its URI and
\* category returns a non-empty list, and None exactly when that list is
\* empty.
C12_ExpandableIffHeadings ==
    expand.phase = "expanded" =>
        (expand.tutorials[expand.opened].collapsibleState = Collapsed
            <=> expand.headingNodes # <<>>)

\* ---- C13
\* The positions of the plan whose invocation fails, in order.
FailingLinks ==
    SelectSeq([i \in 1..Len(disp.plan) |-> i], LAMBDA i : disp.plan[i])

RunComplete == disp.phase = "run" /\ disp.next > Len(disp.plan)

\* C13: partial-failure tolerance of dispatch.  When a run that was not
\* closed has gone through its sequence, every action has settled, each was
\* invoked once, the failed ones are exactly those whose invocation fails
\* and the failures recorded are exactly those links, one record each, in
\* order (three actions with the second failing: the first and the third
\* succeeded and the one failure recorded is link 2).  A failed action is
\* behind the dispatch position and is never invoked again; and whatever
\* failed before, the next queued action of an open view can be dispatched.
C13_PartialFailureTolerance ==
    disp.phase = "run" =>
        /\ (RunComplete /\ ~disp.closed) =>
               /\ \A i \in 1..Len(disp.plan) :
                      /\ disp.status[i] = (IF disp.plan[i] THEN "Failed" ELSE "Succeeded")
                      /\ disp.invocations[i] = 1
               /\ disp.failures = FailingLinks
        /\ \A i \in 1..Len(disp.plan) :
               disp.status[i] = "Failed" =>
                   /\ i < disp.next
                   /\ disp.invocations[i] = 1
                   /\ Cardinality({k \in 1..Len(disp.failures) : disp.failures[k] = i}) = 1
        /\ (/\ ~disp.closed
            /\ disp.next <= Len(disp.plan)
            /\ disp.status[disp.next] = "Pending") => ENABLED dispatchNext

\* Three actions, the second failing, have all settled: the first and the
\* third succeeded and the one failure recorded is link 2.
C13_Witness ==
    /\ RunComplete
    /\ ~disp.closed
    /\ disp.plan = <<FALSE, TRUE, FALSE>>
    /\ disp.status = <<"Succeeded", "Failed", "Succeeded">>
    /\ disp.failures = <<2>>

\* ---- C14
\* C14 (as claimed): getParent re-derives the parent from the current tree.
\* For a category node it answers null; for a tutorial node obtained from
\* getChildren(categoryNode), a category node labelled with the tutorial's
\* category, or null when that category is not in the current root list;
\* for a heading node obtained from getChildren(tutorialNode), the tutorial
\* node it was obtained from (same label, category and URI).
C14_ParentFromCurrentTree ==
    (expand.phase \in {"listed", "expanded"} /\ expand.asked # NoNode) =>
        CASE expand.asked.kind = "TreeNode" -> expand.parent = NullNode
          [] expand.asked.kind = "TutorialNode" ->
                 IF expand.asked.category \in RootLabels
                 THEN /\ expand.parent # NullNode
                      /\ expand.parent.kind = "TreeNode"
                      /\ expand.parent.label = expand.asked.category
                 ELSE expand.parent = NullNode
          [] expand.asked.kind = "HeadingNode" ->
                 LET tutorial == expand.tutorials[expand.opened] IN
                 /\ expand.parent # NullNode
                 /\ expand.parent.kind = "TutorialNode"
                 /\ expand.parent.label = tutorial.label
                 /\ expand.parent.category = tutorial.category
                 /\ expand.parent.uri = tutorial.uri

\* ---- C15
\* C15 (as claimed): after addChild(newNode) with its default arguments
\* (refresh enabled, the provider's root list as target) the root list
\* getChildren() returns contains newNode, and the list addChild returned is
\* the list the provider holds, with tutorial retrieval enabled or disabled.
C15_AddChildAddsToRootList ==
    (last.op = "addChild" /\ ~last.disableRefresh) =>
        /\ \E i \in 1..Len(treeNodes) : treeNodes[i] = last.newNode
        /\ last.returned = treeNodes

\* ---- C16
\* Both calls, with non-empty names and categories, have completed without
\* throwing, and one of them read the registry while the other's update
\* was pending.
BothCompletedOverlapping ==
    /\ calls.phase = "async"
    /\ \A c \in Callers :
           /\ calls.call[c].pc = "done" /\ ~calls.call[c].threw
           /\ Truthy(calls.call[c].name) /\ Truthy(calls.call[c].category)
    /\ \E c \in Callers : calls.call[c].readBeforeWrite

SamePair(a, b) ==
    /\ toLowerCase(a.name) = toLowerCase(b.name)
    /\ toLowerCase(a.category) = toLowerCase(b.category)

\* C16 (as claimed): no lost update under interleaving.  When two
\* registerTutorial calls overlap, the second reading the registry before
\* the first one's configuration write has completed, and both have
\* completed: if their (name, category) pairs are distinct the persisted
\* registry holds both new entries, and if they carry the same pair no two
\* entries of the registry share name and category.
C16_NoLostUpdate ==
    BothCompletedOverlapping =>
        IF ~SamePair(calls.call[1], calls.call[2])
        THEN \A c \in Callers :
                 \E i \in 1..Len(RegistryList) :
                     RegistryList[i] = newDidactAsString(calls.call[c].name,
                                                         calls.call[c].sourceUri,
                                                         calls.call[c].category)
        ELSE \A i, j \in 1..Len(RegistryList) :
                 i < j => ~SamePair(EntryAt(i), EntryAt(j))

====
